---- MODULE Spec2Model ----
(***************************************************************************)
(* Model of the statistic indicator widget                                 *)
(* (widgets/indicator-widget/src/runtime/widget.tsx).                      *)
(*                                                                         *)
(* A widget instance is a React function component.  Its state is the four *)
(* useState cells (mainValue, secondaryDisplayValue, isLoading,            *)
(* dataSource) and its props (useDataSources, config).  fetchData is a     *)
(* closure over the values of one render; its part before the await runs   *)
(* inside the event that calls it, its part after the await runs when the  *)
(* query settles.  Every action below is one event of the UI event loop    *)
(* together with the re-renders and effects it causes.                     *)
(*                                                                         *)
(* Optional values (undefined / null) are written as sets: {} is           *)
(* undefined, {v} is the value v.                                          *)
(***************************************************************************)
EXTENDS Integers, Sequences, FiniteSets, TLC

VARIABLES widget, handlers, hist, stopped, calc, setting, coords

\* the indicator widget at runtime
runtimeVars == <<widget, handlers, hist>>

vars == <<widget, handlers, hist, stopped, calc, setting, coords>>

----------------------------------------------------------------------------
(* Bounds *)

\* largest number of unsettled queries of one instance
MaxOutstanding == 3

\* the same, in the two-instance specification
MaxOutstandingTwo == 2

\* largest number of times one map view is handed to the coordinates widget
MaxListeners == 2

\* widget instances (Spec runs the first alone, SpecTwo runs both)
Inst == {1, 2}

----------------------------------------------------------------------------
(* Optional values *)

Undefined == {}
Null == {}
Some(x) == {x}
Get(o) == CHOOSE x \in o : TRUE

----------------------------------------------------------------------------
(* Host: data sources *)

\* identifiers the DataSourceManager can resolve
Registered == {"ds1", "ds2"}

\* identifiers a widget may be configured with ("dsX" cannot be resolved)
DsIds == Registered \cup {"dsX"}

Events == {"DATA_SOURCE_INFO_CHANGE", "SOURCE_RECORDS_CHANGE"}

\* DataSourceManager.getInstance().getDataSource(dsId)
getDataSource(dsId) ==
  IF dsId \in Registered THEN Some([id |-> dsId]) ELSE Null

----------------------------------------------------------------------------
(* Configuration *)

defaultConfig ==
  [ statisticField            |-> Undefined,
    statisticType             |-> Some("SUM"),
    divisor                   |-> Some(1),
    showSecondaryValue        |-> Some(FALSE),
    secondaryValueDenominator |-> Undefined,
    decimalPlaces             |-> Some(1),
    secondaryDecimalPlaces    |-> Some(2) ]

\* { ...defaultConfig, ...config }: a key of config overrides the default,
\* also when its value is undefined
currentConfigOf(config) ==
  [k \in DOMAIN defaultConfig |->
     IF k \in DOMAIN config THEN config[k] ELSE defaultConfig[k]]

\* !x for a string-valued optional
FalsyStr(o) == o = Undefined \/ Get(o) = ""

\* !x for a number-valued optional
FalsyNum(o) == o = Undefined \/ Get(o) = 0

----------------------------------------------------------------------------
(* Number formatting *)

RECURSIVE Pow10(_)
Pow10(f) == IF f = 0 THEN 1 ELSE 10 * Pow10(f - 1)

\* the f low decimal digits of n, with leading zeros
RECURSIVE FracDigits(_, _)
FracDigits(n, f) ==
  IF f = 0 THEN "" ELSE FracDigits(n \div 10, f - 1) \o ToString(n % 10)

\* (num / den).toFixed(f) for num >= 0, den > 0: the nearest multiple of
\* 10^-f, the larger one on a tie, printed with exactly f fractional digits
toFixed(num, den, f) ==
  LET q == (2 * num * Pow10(f) + den) \div (2 * den)
  IN  ToString(q \div Pow10(f))
        \o (IF f = 0 THEN "" ELSE "." \o FracDigits(q % Pow10(f), f))

\* (num / den).toFixed(f) for any num: the sign, then the magnitude
toFixedSigned(num, den, f) ==
  IF num < 0 THEN "-" \o toFixed(0 - num, den, f) ELSE toFixed(num, den, f)

\* x.toFixed(undefined) is x.toFixed(0)
FractionDigits(o) == IF o = Undefined THEN 0 ELSE Get(o)

----------------------------------------------------------------------------
(* The query and its result *)

toLowerCase(s) ==
  CASE s = "SUM"   -> "sum"
    [] s = "AVG"   -> "avg"
    [] s = "COUNT" -> "count"
    [] s = "MIN"   -> "min"
    [] s = "MAX"   -> "max"
    [] s = "MEDIAN" -> "median"
    [] OTHER       -> s

\* statisticDefinition of the query a refresh issues
statisticDefinition(currentConfig) ==
  [ onStatisticField      |-> Get(currentConfig.statisticField),
    outStatisticFieldName |-> "indicator_value",
    statisticType         |->
      IF FalsyStr(currentConfig.statisticType) THEN "sum"
      ELSE LET t == toLowerCase(Get(currentConfig.statisticType))
           IN  IF t = "" THEN "sum" ELSE t ]

\* what a settled query delivers: it throws, or it returns `records` records
\* of which the first carries indicator_value (null or a number)
Result(ok, records, value) ==
  [ok |-> ok, records |-> records, indicator_value |-> value]

Throws == Result(FALSE, 0, Null)

\* what calculatedValue is divided by: the divisor when it is truthy
appliedDivisorIgnored(currentConfig) == 1

appliedDivisor(currentConfig) ==
  IF ~FalsyNum(currentConfig.divisor) THEN Get(currentConfig.divisor) ELSE 1

\* the body of try: the display a result produces under the configuration
\* the refresh was started with
ShowResult(currentConfig, result) ==
  IF result.records > 0 /\ result.indicator_value # Null
  THEN LET raw     == Get(result.indicator_value)
           den     == appliedDivisor(currentConfig)
           showSec == currentConfig.showSecondaryValue = Some(TRUE)
       IN  [ mainValue |-> toFixed(raw, den, FractionDigits(currentConfig.decimalPlaces)),
             secondaryDisplayValue |->
               IF showSec /\ ~FalsyNum(currentConfig.secondaryValueDenominator)
               THEN toFixed(raw * 100,
                            den * Get(currentConfig.secondaryValueDenominator),
                            FractionDigits(currentConfig.secondaryDecimalPlaces))
               ELSE "" ]
  ELSE [ mainValue |-> toFixed(0, 1, FractionDigits(currentConfig.decimalPlaces)),
         secondaryDisplayValue |-> "" ]


----------------------------------------------------------------------------
(* One widget instance *)

\* the component before its first render: the useState initial values
NewWidget(status, useDataSources, config) ==
  [ status                |-> status,
    useDataSources        |-> useDataSources,
    config                |-> config,
    mainValue             |-> "---",
    secondaryDisplayValue |-> "",
    isLoading             |-> FALSE,
    dataSource            |-> Null,
    outstanding           |-> <<>> ]

\* bookkeeping of the last event of an instance: the kind of event, the
\* outcome of each fetchData call it made, its getDataSource calls, whether
\* the query it settled belonged to the most recent refresh, and the display
\* committed by the most recently started refresh (none while that refresh
\* waits for its query)
NewHist ==
  [ op            |-> "none",
    path          |-> <<>>,
    lookups       |-> 0,
    settled       |-> "none",
    latestDisplay |-> Undefined ]

\* a new event of instance i begins
Begin(S, i, op) ==
  [S EXCEPT !.hist[i] = [@ EXCEPT !.op = op, !.path = <<>>, !.lookups = 0,
                                  !.settled = "none"]]

Display(w) == <<w.mainValue, w.secondaryDisplayValue>>

\* the values one render's fetchData closes over
fetchDataOf(w) ==
  [ useDataSources |-> w.useDataSources,
    currentConfig  |-> currentConfigOf(w.config),
    dataSource     |-> w.dataSource ]

\* the guard of fetchData's first branch
Inactive(useDataSources, currentConfig) ==
  \/ useDataSources = Undefined
  \/ Len(Get(useDataSources)) = 0
  \/ FalsyStr(currentConfig.statisticField)

\* the setters of the inactive branch
InactiveBranch(w) ==
  [w EXCEPT !.mainValue = "---", !.secondaryDisplayValue = ""]

\* the setters of the branch taken when getDataSource finds nothing
NotFoundBranchDropsHandle(w) ==
  [w EXCEPT !.mainValue = "Error: DS", !.secondaryDisplayValue = "",
            !.isLoading = FALSE, !.dataSource = Null]

NotFoundBranch(w) ==
  [w EXCEPT !.mainValue = "Error: DS", !.secondaryDisplayValue = "",
            !.isLoading = FALSE]

\* the setters of try, for the result of a query started under currentConfig
Try(w, currentConfig, result) ==
  LET d == ShowResult(currentConfig, result)
  IN  [w EXCEPT !.mainValue = d.mainValue,
                !.secondaryDisplayValue = d.secondaryDisplayValue]

\* the setters of catch
CatchKeepsSecondary(w) ==
  [w EXCEPT !.mainValue = "Error"]

Catch(w) ==
  [w EXCEPT !.mainValue = "Error", !.secondaryDisplayValue = ""]

\* the setter of finally
FinallySkipped(w) == w

Finally(w) ==
  [w EXCEPT !.isLoading = FALSE]

\* every earlier query of the instance now belongs to a superseded refresh
Superseded(outstanding) ==
  [k \in 1..Len(outstanding) |-> [outstanding[k] EXCEPT !.latest = FALSE]]

\* fetchData up to its await, called with the closure c in instance i of the
\* world S = [widget, handlers, hist]
fetchData(c, S, i) ==
  LET w == S.widget[i]
      h == S.hist[i]
  IN
  IF Inactive(c.useDataSources, c.currentConfig)
  THEN [S EXCEPT
         !.widget[i] = [InactiveBranch(w) EXCEPT !.outstanding = Superseded(@)],
         !.hist[i] = [h EXCEPT !.path = Append(@, "inactive"),
                               !.latestDisplay = Some(<<"---", "">>)]]
  ELSE
  LET dsId          == Get(c.useDataSources)[1].dataSourceId
      lookup        == c.dataSource = Null \/ Get(c.dataSource).id # dsId
      newDsInstance == getDataSource(dsId)
      currentDs     == IF lookup THEN newDsInstance ELSE c.dataSource
  IN
  IF lookup /\ newDsInstance = Null
  THEN [S EXCEPT
         !.widget[i] = [NotFoundBranch(w) EXCEPT !.outstanding = Superseded(@)],
         !.hist[i] = [h EXCEPT !.path = Append(@, "dsNotFound"),
                               !.lookups = @ + 1,
                               !.latestDisplay = Some(<<"Error: DS", "">>)]]
  ELSE [S EXCEPT
         !.widget[i] = [w EXCEPT
            !.isLoading = TRUE,
            !.dataSource = IF lookup THEN newDsInstance ELSE @,
            !.outstanding = Append(Superseded(@),
               [ queriableDs   |-> Get(currentDs).id,
                 outStatistics |-> statisticDefinition(c.currentConfig),
                 currentConfig |-> c.currentConfig,
                 latest        |-> TRUE ])],
         !.hist[i] = [h EXCEPT !.path = Append(@, "query"),
                               !.lookups = @ + (IF lookup THEN 1 ELSE 0),
                               !.latestDisplay = Undefined]]

\* fetchData after its await: query k of instance i settles with `result`
fetchDataSettled(S, i, k, result) ==
  LET w   == S.widget[i]
      req == w.outstanding[k]
      done == Finally(IF result.ok THEN Try(w, req.currentConfig, result)
                      ELSE Catch(w))
      rest == SubSeq(w.outstanding, 1, k - 1)
                \o SubSeq(w.outstanding, k + 1, Len(w.outstanding))
  IN
  IF w.status # "mounted"
  THEN [S EXCEPT !.widget[i].outstanding = rest]
  ELSE [S EXCEPT
         !.widget[i] = [done EXCEPT !.outstanding = rest],
         !.hist[i] = [S.hist[i] EXCEPT
            !.path = Append(@, IF result.ok THEN "resolved" ELSE "threw"),
            !.settled = IF req.latest THEN "latest" ELSE "superseded",
            !.latestDisplay =
               IF req.latest THEN Some(Display(done))
               ELSE @]]

----------------------------------------------------------------------------
(* Effects *)

\* eventedDataSource.on(event, handler)
On(S, d, event, handler) ==
  [S EXCEPT !.handlers[d][event] = @ \cup {handler}]

\* eventedDataSource.off(event, handler): removes that very handler
OffByClosureValues(S, d, event, handler) ==
  [S EXCEPT !.handlers[d][event] =
     {f \in @ : f.fetchData # handler.fetchData}]

Off(S, d, event, handler) ==
  [S EXCEPT !.handlers[d][event] = @ \ {handler}]

\* handleDataSourceInfoChange of the render with closure c: a function
\* object of instance i that calls that render's fetchData
handleDataSourceInfoChange(i, c) == [inst |-> i, fetchData |-> c]

\* the body of the subscription effect of the render with closure c
Subscribe(S, i, c) ==
  IF c.dataSource # Null
  THEN LET d == Get(c.dataSource).id
           f == handleDataSourceInfoChange(i, c)
       IN  On(On(S, d, "DATA_SOURCE_INFO_CHANGE", f), d, "SOURCE_RECORDS_CHANGE", f)
  ELSE S

\* the cleanup the subscription effect of the render with closure c returned
Unsubscribe(S, i, c) ==
  IF c.dataSource # Null
  THEN LET d == Get(c.dataSource).id
           f == handleDataSourceInfoChange(i, c)
       IN  Off(Off(S, d, "DATA_SOURCE_INFO_CHANGE", f), d, "SOURCE_RECORDS_CHANGE", f)
  ELSE S

\* Commit of a render of instance i whose fetchData differs from that of the
\* previous render (prev; none at mount): the previous subscription is
\* cleaned up, then the fetch effect and the subscription effect run.  A
\* setDataSource made by the fetch effect changes fetchData again, so the
\* component renders once more.
RECURSIVE RunEffects(_, _, _)
RunEffects(S, i, prev) ==
  LET c  == fetchDataOf(S.widget[i])
      S1 == IF prev # Null THEN Unsubscribe(S, i, Get(prev)) ELSE S
      S2 == fetchData(c, S1, i)
      S3 == Subscribe(S2, i, c)
  IN  IF fetchDataOf(S3.widget[i]) # c
      THEN RunEffects(S3, i, Some(c))
      ELSE S3

\* a registered handler is called by the data source
CallHandlerNoFetch(S, f) == Begin(S, f.inst, "notify")

CallHandler(S, f) ==
  LET i  == f.inst
      c  == fetchDataOf(S.widget[i])
      S1 == fetchData(f.fetchData, Begin(S, i, "notify"), i)
  IN  IF fetchDataOf(S1.widget[i]) # c
      THEN RunEffects(S1, i, Some(c))
      ELSE S1

\* the data source calls every handler registered for the event
RECURSIVE Emit(_, _)
Emit(S, fs) ==
  IF fs = {} THEN S
  ELSE LET f == CHOOSE x \in fs : TRUE
       IN  Emit(CallHandler(S, f), fs \ {f})

----------------------------------------------------------------------------
(* Inputs *)

UseDataSources ==
  {Undefined, Some(<<>>)} \cup {Some(<<[dataSourceId |-> d]>>) : d \in DsIds}

\* config objects the host may supply
Configs ==
  { [statisticType |-> Some("SUM")],
    [statisticField |-> Some("area"), divisor |-> Some(1000)],
    [statisticField |-> Some("area"), statisticType |-> Some("COUNT"),
     showSecondaryValue |-> Some(TRUE),
     secondaryValueDenominator |-> Some(4000)] }

Results ==
  { Throws,
    Result(TRUE, 0, Null),
    Result(TRUE, 1, Null),
    Result(TRUE, 1, Some(2000)) }

\* the inputs of the two-instance specification
UseDataSourcesTwo ==
  {Undefined} \cup {Some(<<[dataSourceId |-> d]>>) : d \in Registered}

ConfigsTwo ==
  { [statisticType |-> Some("SUM")],
    [statisticField |-> Some("area"), divisor |-> Some(1000)] }

ResultsTwo == {Throws, Result(TRUE, 1, Some(2000))}

----------------------------------------------------------------------------
(* Actions *)

World == [widget |-> widget, handlers |-> handlers, hist |-> hist]

Within(S) ==
  \A i \in Inst : Len(S.widget[i].outstanding) <= MaxOutstanding

Becomes(S) ==
  /\ Within(S)
  /\ widget' = S.widget
  /\ handlers' = S.handlers
  /\ hist' = S.hist
  /\ UNCHANGED <<stopped, calc, setting, coords>>

\* the host mounts instance i: first render, then its effects
Mount(i, useDataSources, config) ==
  /\ widget[i].status = "unmounted"
  /\ Becomes(RunEffects(
       [Begin(World, i, "mount") EXCEPT
          !.widget[i] = NewWidget("mounted", useDataSources, config)],
       i, Null))

\* the host supplies new props (a settings edit or a data-source change)
PropsChange(i, useDataSources, config) ==
  /\ widget[i].status = "mounted"
  /\ Becomes(RunEffects(
       [Begin(World, i, "props") EXCEPT
          !.widget[i].useDataSources = useDataSources,
          !.widget[i].config = config],
       i, Some(fetchDataOf(widget[i]))))

\* data source d emits a change notification
Notify(d, event) ==
  /\ handlers[d][event] # {}
  /\ Becomes(Emit(World, handlers[d][event]))

\* query k of instance i settles
QuerySettles(i, k, result) ==
  /\ k \in 1..Len(widget[i].outstanding)
  /\ Becomes(fetchDataSettled(Begin(World, i, "settle"), i, k, result))

\* the host removes instance i: the effect cleanup runs, the state is dropped
Unmount(i) ==
  /\ widget[i].status = "mounted"
  /\ Becomes([Unsubscribe(Begin(World, i, "unmount"), i, fetchDataOf(widget[i]))
       EXCEPT !.widget[i] =
         [NewWidget("tornDown", Undefined, <<>>) EXCEPT
            !.outstanding = widget[i].outstanding]])

\* the runtime widgets before any is mounted
InitRuntime ==
  /\ widget = [i \in Inst |-> NewWidget("unmounted", Undefined, <<>>)]
  /\ handlers = [d \in Registered |-> [e \in Events |-> {}]]
  /\ hist = [i \in Inst |-> NewHist]
  /\ stopped = FALSE

\* the parts of the state the runtime specifications leave alone
InitOther ==
  /\ calc = <<>>
  /\ setting = <<>>
  /\ coords = <<>>

Init == InitRuntime /\ InitOther

NextOf(insts, useDataSources, configs, results) ==
  \/ \E i \in insts, u \in useDataSources, c \in configs : Mount(i, u, c)
  \/ \E i \in insts, u \in useDataSources, c \in configs : PropsChange(i, u, c)
  \/ \E d \in Registered, e \in Events : Notify(d, e)
  \/ \E i \in insts, k \in 1..MaxOutstanding, r \in results : QuerySettles(i, k, r)
  \/ \E i \in insts : Unmount(i)

\* one instance, every input
Next == NextOf({1}, UseDataSources, Configs, Results)

Spec == Init /\ [][Next]_vars

\* two instances, on fewer inputs
NextTwo ==
  /\ NextOf(Inst, UseDataSourcesTwo, ConfigsTwo, ResultsTwo)
  /\ \A i \in Inst : Len(widget'[i].outstanding) <= MaxOutstandingTwo

SpecTwo == Init /\ [][NextTwo]_vars

----------------------------------------------------------------------------
(* One instance whose external events stop and whose queries all settle *)

\* the host and the data sources send no further event
Stop ==
  /\ ~stopped
  /\ stopped' = TRUE
  /\ UNCHANGED <<widget, handlers, hist, calc, setting, coords>>

\* some unsettled query of the instance settles
SomeQuerySettles ==
  \E k \in 1..MaxOutstanding, r \in Results : QuerySettles(1, k, r)

NextLive ==
  \/ ~stopped /\ \E u \in UseDataSources, c \in Configs : Mount(1, u, c)
  \/ ~stopped /\ \E u \in UseDataSources, c \in Configs : PropsChange(1, u, c)
  \/ ~stopped /\ \E d \in Registered, e \in Events : Notify(d, e)
  \/ ~stopped /\ Unmount(1)
  \/ SomeQuerySettles
  \/ Stop

\* every issued query eventually resolves or throws
SpecLive == Init /\ [][NextLive]_vars /\ WF_vars(SomeQuerySettles)

----------------------------------------------------------------------------
(* The settled query on its own: every configuration against every result *)

\* a config object with the given properties; None leaves the property out
None == <<>>
Prop(k, v) == k :> v

ComputeConfigs ==
  { Prop("statisticField", Some("area")) @@ t @@ d @@ p @@ s @@ n :
      t \in {None} \cup {Prop("statisticType", v) :
               v \in {Undefined, Some(""), Some("SUM"), Some("AVG"),
                      Some("COUNT"), Some("MIN"), Some("MAX"), Some("MEDIAN")}},
      d \in {None} \cup {Prop("divisor", v) :
               v \in {Undefined, Some(0), Some(1), Some(3), Some(1000)}},
      p \in {None, Prop("decimalPlaces", Some(0)), Prop("decimalPlaces", Some(2))},
      s \in {None, Prop("showSecondaryValue", Some(TRUE))},
      n \in {None} \cup {Prop("secondaryValueDenominator", v) :
               v \in {Some(0), Some(4000)}} }

ComputeResults ==
  { Throws,
    Result(TRUE, 0, Null),
    Result(TRUE, 1, Null),
    Result(TRUE, 1, Some(0)),
    Result(TRUE, 1, Some(500)),
    Result(TRUE, 1, Some(2000)) }

\* a widget is rendered with config; its query will settle with result
InitCompute ==
  /\ InitRuntime
  /\ setting = <<>>
  /\ coords = <<>>
  /\ \E c \in ComputeConfigs, r \in ComputeResults :
       calc = [ phase         |-> "rendered",
                config        |-> c,
                outStatistics |-> Undefined,
                result        |-> r,
                widget        |-> NewWidget("mounted", Undefined, c) ]

\* the refresh issues its query
Issue ==
  /\ calc.phase = "rendered"
  /\ calc' = [calc EXCEPT
       !.phase = "awaiting",
       !.outStatistics = Some(statisticDefinition(currentConfigOf(calc.config))),
       !.widget.isLoading = TRUE]
  /\ UNCHANGED <<widget, handlers, hist, stopped, setting, coords>>

\* the query settles: try / catch / finally
Compute ==
  /\ calc.phase = "awaiting"
  /\ calc' = [calc EXCEPT
       !.phase = "done",
       !.widget = Finally(IF calc.result.ok
                          THEN Try(@, currentConfigOf(calc.config), calc.result)
                          ELSE Catch(@))]
  /\ UNCHANGED <<widget, handlers, hist, stopped, setting, coords>>

NextCompute == Issue \/ Compute

SpecCompute == InitCompute /\ [][NextCompute]_vars

----------------------------------------------------------------------------
(* The settings panel (widgets/indicator-widget/src/setting/setting.tsx) *)

settingDefaultConfig ==
  [ statisticField     |-> Undefined,
    statisticType      |-> Some("SUM"),
    divisor            |-> Some(1),
    prefix             |-> Some(""),
    suffix             |-> Some(""),
    secondaryPrefix    |-> Some(""),
    secondarySuffix    |-> Some("% of total"),
    showSecondaryValue |-> Some(FALSE) ]

\* const currentConfig = { ...defaultConfig, ...config }
settingCurrentConfig(config) ==
  [k \in DOMAIN settingDefaultConfig |->
     IF k \in DOMAIN config THEN config[k] ELSE settingDefaultConfig[k]]

\* the object onDataSourceChange passes to onSettingChange
onDataSourceChangeKeepsField(currentConfig, newUseDataSources) ==
  [ useDataSources |-> Some(newUseDataSources),
    config         |-> currentConfig ]

onDataSourceChange(currentConfig, newUseDataSources) ==
  [ useDataSources |-> Some(newUseDataSources),
    config         |-> [currentConfig EXCEPT !.statisticField = Undefined] ]

\* the object onFieldSelected passes to onSettingChange
onFieldSelected(currentConfig, allSelectedFields) ==
  LET newField ==
        IF allSelectedFields # Undefined /\ Len(Get(allSelectedFields)) > 0
        THEN Some(Get(allSelectedFields)[1].jimuName)
        ELSE Undefined
  IN  [config |-> [currentConfig EXCEPT !.statisticField = newField]]

\* the object onStatisticTypeChange passes to onSettingChange
onStatisticTypeChange(currentConfig, value) ==
  [config |-> [currentConfig EXCEPT !.statisticType = Some(value)]]

\* newDivisor of onDivisorChange
newDivisorUnclamped(value) == value

newDivisor(value) ==
  IF value = Some(0) \/ value = Undefined THEN Some(1) ELSE value

\* the object onDivisorChange passes to onSettingChange
onDivisorChange(currentConfig, value) ==
  [config |-> [currentConfig EXCEPT !.divisor = newDivisor(value)]]

\* the object onConfigChange passes to onSettingChange
onConfigChange(currentConfig, property, value) ==
  [config |-> [currentConfig EXCEPT ![property] = Some(value)]]

\* the host stores the properties onSettingChange is given
onSettingChange(st, change) ==
  [st EXCEPT
     !.config = change.config,
     !.useDataSources =
        IF "useDataSources" \in DOMAIN change THEN change.useDataSources ELSE @]

\* the rows below the data source selector are rendered
HasDataSource(st) ==
  st.useDataSources # Undefined /\ Len(Get(st.useDataSources)) > 0

\* the stored settings a panel is opened on: no field selected yet, the
\* divisor absent, undefined or not 0.  last, divisorArg and fieldSinceDs
\* record the last handler, the value onDivisorChange was given, and
\* whether the stored field was selected after the last data-source change.
InitialSettings ==
  { [ useDataSources |-> u, config |-> c, last |-> "none",
      divisorArg |-> Undefined, fieldSinceDs |-> FALSE ] :
      u \in {Undefined, Some(<<[dataSourceId |-> "ds1"]>>)},
      c \in { <<>>,
              [divisor |-> Undefined],
              [divisor |-> Some(1000), statisticType |-> Some("AVG")] } }

SelectableDataSources ==
  {<<>>} \cup {<<[dataSourceId |-> d]>> : d \in Registered}

SelectableFields ==
  {Undefined, Some(<<>>), Some(<<[jimuName |-> "area"]>>),
   Some(<<[jimuName |-> "length"]>>)}

StatisticTypes == {"SUM", "AVG", "COUNT", "MIN", "MAX"}

DivisorInputs == {Undefined, Some(0), Some(1), Some(1000)}

\* the text inputs and the checkbox: property and entered value
TextEdits ==
  {<<"prefix", "">>, <<"prefix", "Total: ">>,
   <<"suffix", "">>, <<"suffix", " km">>}

SecondaryTextEdits ==
  {<<"secondaryPrefix", "">>, <<"secondaryPrefix", "~">>,
   <<"secondarySuffix", "%">>}

Edited(st, change, last) ==
  /\ setting' = [onSettingChange(st, change) EXCEPT !.last = last]
  /\ UNCHANGED <<widget, handlers, hist, stopped, calc, coords>>

DataSourceChanged(newUseDataSources) ==
  Edited([setting EXCEPT !.fieldSinceDs = FALSE],
         onDataSourceChange(settingCurrentConfig(setting.config), newUseDataSources),
         "onDataSourceChange")

FieldSelected(allSelectedFields) ==
  /\ HasDataSource(setting)
  /\ Edited([setting EXCEPT !.fieldSinceDs = TRUE],
            onFieldSelected(settingCurrentConfig(setting.config), allSelectedFields),
            "onFieldSelected")

StatisticTypeChanged(value) ==
  /\ HasDataSource(setting)
  /\ Edited(setting,
            onStatisticTypeChange(settingCurrentConfig(setting.config), value),
            "onStatisticTypeChange")

DivisorChanged(value) ==
  /\ HasDataSource(setting)
  /\ Edited([setting EXCEPT !.divisorArg = value],
            onDivisorChange(settingCurrentConfig(setting.config), value),
            "onDivisorChange")

TextChanged(property, value) ==
  /\ HasDataSource(setting)
  /\ Edited(setting,
            onConfigChange(settingCurrentConfig(setting.config), property, value),
            "onConfigChange")

ShowSecondaryChanged(checked) ==
  /\ HasDataSource(setting)
  /\ Edited(setting,
            onConfigChange(settingCurrentConfig(setting.config),
                           "showSecondaryValue", checked),
            "onConfigChange")

SecondaryTextChanged(property, value) ==
  /\ HasDataSource(setting)
  /\ settingCurrentConfig(setting.config).showSecondaryValue = Some(TRUE)
  /\ Edited(setting,
            onConfigChange(settingCurrentConfig(setting.config), property, value),
            "onConfigChange")

InitSetting ==
  /\ InitRuntime
  /\ calc = <<>>
  /\ coords = <<>>
  /\ setting \in InitialSettings

NextSetting ==
  \/ \E u \in SelectableDataSources : DataSourceChanged(u)
  \/ \E f \in SelectableFields : FieldSelected(f)
  \/ \E t \in StatisticTypes : StatisticTypeChanged(t)
  \/ \E v \in DivisorInputs : DivisorChanged(v)
  \/ \E e \in TextEdits : TextChanged(e[1], e[2])
  \/ \E b \in BOOLEAN : ShowSecondaryChanged(b)
  \/ \E e \in SecondaryTextEdits : SecondaryTextChanged(e[1], e[2])

SpecSetting == InitSetting /\ [][NextSetting]_vars

----------------------------------------------------------------------------
(* The coordinates widget (widgets/coordinates-display/src/runtime/widget.tsx) *)

Views == {"view1", "view2"}

\* a number of degrees, as numerator and denominator
Latitudes  == {<<0, 1>>, <<533498, 10000>>, <<0 - 4, 10000>>, <<899995, 10000>>}
Longitudes == {<<0 - 62603, 10000>>, <<0, 1>>}

\* what view.toMap returns: null, or a point whose latitude and longitude
\* may be null
Points ==
  {Null} \cup
  { Some([latitude |-> la, longitude |-> lo]) :
      la \in {Null} \cup {Some(x) : x \in Latitudes},
      lo \in {Null} \cup {Some(x) : x \in Longitudes} }

\* point && point.latitude != null && point.longitude != null
ValidPoint(point) ==
  /\ point # Null
  /\ Get(point).latitude # Null
  /\ Get(point).longitude # Null

\* the pointer-move handler, for the point the pointer maps to
onPointerMove(c, point) ==
  IF ValidPoint(point)
  THEN LET la == Get(Get(point).latitude)
           lo == Get(Get(point).longitude)
       IN  [c EXCEPT !.latitude  = toFixedSigned(la[1], la[2], 3),
                     !.longitude = toFixedSigned(lo[1], lo[2], 3)]
  ELSE [c EXCEPT !.latitude = "", !.longitude = ""]

\* the pointer-leave handler
onPointerLeaveKeepsLongitude(c) ==
  [c EXCEPT !.latitude = ""]

onPointerLeave(c) ==
  [c EXCEPT !.latitude = "", !.longitude = ""]

\* activeViewChangeHandler: both handlers are registered on the view
activeViewChangeHandler(c, jmv) ==
  IF jmv # Null
  THEN [c EXCEPT !.listeners[Get(jmv)] = @ + 1]
  ELSE c

\* the n pointer-move handlers registered on a view run one after the other
RECURSIVE MoveHandlers(_, _, _)
MoveHandlers(n, c, point) ==
  IF n = 0 THEN c ELSE MoveHandlers(n - 1, onPointerMove(c, point), point)

\* the n pointer-leave handlers registered on a view run one after the other
RECURSIVE LeaveHandlers(_, _)
LeaveHandlers(n, c) ==
  IF n = 0 THEN c ELSE LeaveHandlers(n - 1, onPointerLeave(c))

\* the widget after its first render.  pointerOn and lastPoint record
\* whether the last pointer event was a move onto a valid point, and the
\* point of the last move.
InitCoords ==
  /\ InitRuntime
  /\ calc = <<>>
  /\ setting = <<>>
  /\ coords = [ latitude  |-> "",
                longitude |-> "",
                listeners |-> [v \in Views |-> 0],
                pointerOn |-> FALSE,
                lastPoint |-> Null ]

CoordsBecome(c) ==
  /\ coords' = c
  /\ UNCHANGED <<widget, handlers, hist, stopped, calc, setting>>

ActiveViewChange(jmv) ==
  /\ jmv # Null => coords.listeners[Get(jmv)] < MaxListeners
  /\ CoordsBecome(activeViewChangeHandler(coords, jmv))

PointerMove(view, point) ==
  /\ coords.listeners[view] > 0
  /\ CoordsBecome([MoveHandlers(coords.listeners[view], coords, point) EXCEPT
                     !.pointerOn = ValidPoint(point),
                     !.lastPoint = point])

PointerLeave(view) ==
  /\ coords.listeners[view] > 0
  /\ CoordsBecome([LeaveHandlers(coords.listeners[view], coords) EXCEPT
                     !.pointerOn = FALSE])

NextCoords ==
  \/ \E jmv \in {Null} \cup {Some(v) : v \in Views} : ActiveViewChange(jmv)
  \/ \E v \in Views, p \in Points : PointerMove(v, p)
  \/ \E v \in Views : PointerLeave(v)

SpecCoords == InitCoords /\ [][NextCoords]_vars

----------------------------------------------------------------------------
(* Properties *)

Mounted(i) == widget[i].status = "mounted"

Outstanding(i) == Len(widget[i].outstanding)

Triggers == {"mount", "props", "notify"}

\* the number of queries the fetchData calls of a path issued
RECURSIVE Queries(_)
Queries(path) ==
  IF path = <<>> THEN 0
  ELSE (IF Head(path) = "query" THEN 1 ELSE 0) + Queries(Tail(path))

\* the handlers of instance i registered on data source d for event e
HandlersOf(i, d, e) == {f \in handlers[d][e] : f.inst = i}

\* the configuration of instance i is active and its data source resolvable
ActiveAndResolvable(i) ==
  /\ ~Inactive(widget[i].useDataSources, currentConfigOf(widget[i].config))
  /\ Get(widget[i].useDataSources)[1].dataSourceId \in Registered

\* C1: once the most recently started refresh of a mounted instance has
\* committed its display, the display shown is the one that refresh
\* committed: no response of a superseded request overwrites it.
C1_LatestRefreshShown ==
  \A i \in Inst :
    Mounted(i) /\ hist[i].latestDisplay # Undefined
      => Display(widget[i]) = Get(hist[i].latestDisplay)

\* C2: an instance never has more than one unsettled query.
C2_AtMostOneOutstanding ==
  \A i \in Inst : Outstanding(i) <= 1

C4_LoadingWhileOutstanding ==
  \A i \in Inst : Mounted(i) /\ Outstanding(i) > 0 => widget[i].isLoading

\* C5: an event whose refresh took the inactive branch made no lookup and
\* issued no query, and leaves '---', '' and isLoading = false.
C5_InactiveRefresh ==
  \A i \in Inst :
    Mounted(i) /\ hist[i].op \in Triggers /\ hist[i].path = <<"inactive">>
      => /\ widget[i].mainValue = "---"
         /\ widget[i].secondaryDisplayValue = ""
         /\ ~widget[i].isLoading
         /\ hist[i].lookups = 0

\* C6: the settling of a query issues no query, and a mount, a props change
\* or a notification issues exactly one query when the configuration is
\* active and the data source resolves, and none otherwise.
C6_OneQueryPerTrigger ==
  \A i \in Inst :
    /\ hist[i].op = "settle" => Queries(hist[i].path) = 0
    /\ Mounted(i) /\ hist[i].op \in Triggers
         => Queries(hist[i].path) = IF ActiveAndResolvable(i) THEN 1 ELSE 0

\* C7: a step in which the query of the most recent refresh throws ends with
\* 'Error', '' and isLoading = false, and issues no query.
C7_QueryFailure ==
  [][\A i \in Inst :
       /\ widget'[i] # widget[i]
       /\ widget'[i].status = "mounted"
       /\ hist'[i].op = "settle"
       /\ hist'[i].settled = "latest"
       /\ "threw" \in {hist'[i].path[n] : n \in 1..Len(hist'[i].path)}
       => /\ widget'[i].mainValue = "Error"
          /\ widget'[i].secondaryDisplayValue = ""
          /\ ~widget'[i].isLoading
          /\ Len(widget'[i].outstanding) = Len(widget[i].outstanding) - 1]_vars

\* C7 witness: the query of the most recent refresh threw and the instance
\* shows the error marker.
C7_Witness ==
  \E i \in Inst :
    /\ Mounted(i) /\ hist[i].op = "settle" /\ hist[i].settled = "latest"
    /\ hist[i].path = <<"threw">>
    /\ widget[i].mainValue = "Error"

\* C8: a step whose refresh finds no data source issues no query, ends with
\* 'Error: DS', '' and isLoading = false, and keeps the stored handle.
C8_DataSourceNotFound ==
  [][\A i \in Inst :
       /\ widget'[i].status = "mounted"
       /\ hist'[i].op \in Triggers
       /\ "dsNotFound" \in {hist'[i].path[n] : n \in 1..Len(hist'[i].path)}
       => /\ widget'[i].mainValue = "Error: DS"
          /\ widget'[i].secondaryDisplayValue = ""
          /\ ~widget'[i].isLoading
          /\ Len(widget'[i].outstanding) <= Len(widget[i].outstanding)
          /\ widget'[i].dataSource = widget[i].dataSource]_vars

\* C8 witness: the data source was not found while an earlier handle is held.
C8_Witness ==
  \E i \in Inst :
    /\ Mounted(i) /\ hist[i].path = <<"dsNotFound">>
    /\ widget[i].dataSource # Null
    /\ widget[i].mainValue = "Error: DS"

\* C9: an instance holds handlers only while mounted, and only on the data
\* source its current useDataSources names.
C9_SubscribedToCurrentRef ==
  \A i \in Inst, d \in Registered, e \in Events :
    HandlersOf(i, d, e) # {}
      => /\ Mounted(i)
         /\ widget[i].useDataSources # Undefined
         /\ Len(Get(widget[i].useDataSources)) > 0
         /\ Get(widget[i].useDataSources)[1].dataSourceId = d

\* C10: a step that leaves an instance's own state unchanged leaves its
\* handlers unchanged, and a mounted instance that holds a data source has
\* the handler of its current fetchData registered for both events.
C10_SubscriptionIsolation ==
  [][\A j \in Inst :
       /\ widget'[j] = widget[j]
            => \A d \in Registered, e \in Events :
                 {f \in handlers'[d][e] : f.inst = j} = HandlersOf(j, d, e)
       /\ widget'[j].status = "mounted" /\ widget'[j].dataSource # Null
            => \A e \in Events :
                 handleDataSourceInfoChange(j, fetchDataOf(widget'[j]))
                   \in handlers'[Get(widget'[j].dataSource).id][e]]_vars

\* C10 witness: one instance was torn down, the other still holds its
\* handlers on a data source and was last refreshed by a notification.
C10_Witness ==
  \E i, j \in Inst, d \in Registered :
    /\ i # j
    /\ widget[i].status = "tornDown" /\ hist[i].op = "unmount"
    /\ Mounted(j) /\ hist[j].op = "notify"
    /\ \A e \in Events : HandlersOf(j, d, e) # {}


\* C11: after a mount, a props change or a notification of a mounted
\* instance whose configuration is active and whose data source resolves,
\* the instance is loading and the query issued last uses the current
\* configuration; a mounted instance shows no value with no query unsettled
\* only when its configuration is inactive.
C11_ReenterLoading ==
  \A i \in Inst :
    /\ Mounted(i) /\ hist[i].op \in Triggers /\ ActiveAndResolvable(i)
         => /\ widget[i].isLoading
            /\ Queries(hist[i].path) >= 1
            /\ Outstanding(i) >= 1
            /\ LET q == widget[i].outstanding[Outstanding(i)]
               IN  /\ q.latest
                   /\ q.currentConfig = currentConfigOf(widget[i].config)
                   /\ q.queriableDs =
                        Get(widget[i].useDataSources)[1].dataSourceId
    /\ Mounted(i) /\ widget[i].mainValue = "---" /\ Outstanding(i) = 0
         => Inactive(widget[i].useDataSources, currentConfigOf(widget[i].config))

\* C11 witness: a notification re-entered Loading after a value was shown
\* under a configuration with a secondary value.
C11_Witness ==
  \E i \in Inst :
    /\ Mounted(i) /\ hist[i].op = "notify" /\ ActiveAndResolvable(i)
    /\ widget[i].isLoading
    /\ widget[i].secondaryDisplayValue # ""
    /\ Outstanding(i) = 1


\* C12: the stored divisor is never 0, and onDivisorChange stores 1 for 0
\* and for undefined and the given value otherwise.
C12_DivisorNeverZero ==
  /\ "divisor" \in DOMAIN setting.config => setting.config.divisor # Some(0)
  /\ setting.last = "onDivisorChange"
       => setting.config.divisor =
            IF setting.divisorArg = Undefined \/ setting.divisorArg = Some(0)
            THEN Some(1) ELSE setting.divisorArg

\* C12 witness: the divisor input was set to 0 and 1 is stored.
C12_Witness ==
  /\ setting.last = "onDivisorChange"
  /\ setting.divisorArg = Some(0)
  /\ setting.config.divisor = Some(1)

\* C17: a data-source change stores a config that is the current config
\* with statisticField undefined and everything else kept, and a stored
\* statisticField was selected after the last data-source change.
C17_DataSourceChangeResetsField ==
  [][/\ setting'.last = "onDataSourceChange"
          => setting'.config =
               [settingCurrentConfig(setting.config)
                  EXCEPT !.statisticField = Undefined]
     /\ setting'.config.statisticField # Undefined => setting'.fieldSinceDs]_vars

\* C17 witness: the data source was changed while a field, a statistic type
\* and a divisor were stored; the field is gone, the others are kept.
C17_Witness ==
  /\ setting.last = "onDataSourceChange"
  /\ ~setting.fieldSinceDs
  /\ setting.config.statisticField = Undefined
  /\ setting.config.statisticType = Some("MAX")
  /\ setting.config.divisor = Some(1000)
  /\ setting.useDataSources = Some(<<[dataSourceId |-> "ds2"]>>)


\* the settled query returned a record with a non-null aggregate
HasValue == calc.result.ok /\ calc.result.records > 0
              /\ calc.result.indicator_value # Null

\* the settled query returned no record or a null aggregate
EmptyValue == calc.result.ok /\ ~HasValue

\* C13: for a non-null aggregate r and a divisor d the primary value is
\* r / n printed with decimalPlaces digits, where n is 1 when d is 0 or
\* undefined and d otherwise; n is never 0.
C13_PrimaryTransform ==
  calc.phase = "done" /\ HasValue
    => LET cc == currentConfigOf(calc.config)
           n  == IF cc.divisor = Undefined \/ cc.divisor = Some(0)
                 THEN 1 ELSE Get(cc.divisor)
       IN  /\ n # 0
           /\ calc.widget.mainValue =
                toFixed(Get(calc.result.indicator_value), n,
                        FractionDigits(cc.decimalPlaces))

\* C13 witness: 2000 under divisor 1000 is shown as '2.0'.
C13_Witness ==
  /\ calc.phase = "done" /\ HasValue
  /\ currentConfigOf(calc.config).divisor = Some(1000)
  /\ calc.result.indicator_value = Some(2000)
  /\ calc.widget.mainValue = "2.0"

\* C14: with showSecondaryValue and a nonzero denominator the secondary
\* value is the aggregate as the query returned it, over the denominator,
\* times 100, whatever the divisor.
C14_SecondaryFromRawAggregate ==
  calc.phase = "done" /\ HasValue
    => LET cc == currentConfigOf(calc.config)
       IN  cc.showSecondaryValue = Some(TRUE)
             /\ ~FalsyNum(cc.secondaryValueDenominator)
           => calc.widget.secondaryDisplayValue =
                toFixed(100 * Get(calc.result.indicator_value),
                        Get(cc.secondaryValueDenominator),
                        FractionDigits(cc.secondaryDecimalPlaces))

\* what the widget shows when it has no number
NonNumeric == {"---", "", "Error", "Error: DS"}

\* C15: when the query returns no record or a null aggregate, the primary
\* value is 0 for COUNT and no number for AVG, MIN and MAX.
C15_EmptyAggregate ==
  calc.phase = "done" /\ EmptyValue
    => LET cc == currentConfigOf(calc.config)
       IN  /\ cc.statisticType = Some("COUNT")
                => calc.widget.mainValue =
                     toFixed(0, 1, FractionDigits(cc.decimalPlaces))
           /\ cc.statisticType \in {Some("AVG"), Some("MIN"), Some("MAX")}
                => calc.widget.mainValue \in NonNumeric

\* C16: a statisticType that is none of SUM, AVG, COUNT, MIN, MAX makes the
\* query request the sum.
C16_UnknownKindIsSum ==
  /\ calc.phase # "rendered"
  /\ currentConfigOf(calc.config).statisticType
       \notin {Some(t) : t \in StatisticTypes}
  => Get(calc.outStatistics).statisticType = "sum"


\* no query of any instance is unsettled and no instance is loading
Quiet ==
  \A i \in Inst : Outstanding(i) = 0 /\ ~widget[i].isLoading

\* C18: once the external events have stopped, and every query settles, the
\* instance reaches a state with no unsettled query and isLoading = false
\* and stays there.
C18_Quiescence == stopped ~> []Quiet

\* C18 witness: the events have stopped and the last of the queries of a
\* mounted instance has settled.
C18_Witness ==
  /\ stopped /\ Quiet
  /\ Mounted(1) /\ hist[1].op = "settle"
  /\ Queries(hist[1].path) = 0

\* C19: a mounted instance whose configuration is inactive and that has no
\* unsettled query shows '---' and '' and is not loading.
C19_InactiveNotOverwritten ==
  \A i \in Inst :
    /\ Mounted(i) /\ Outstanding(i) = 0
    /\ Inactive(widget[i].useDataSources, currentConfigOf(widget[i].config))
    => /\ widget[i].mainValue = "---"
       /\ widget[i].secondaryDisplayValue = ""
       /\ ~widget[i].isLoading


\* C20: latitude and longitude are both empty unless the last pointer event
\* was a move onto a valid point, and then both are that point's
\* coordinates.
C20_CoordinatesTogether ==
  IF coords.pointerOn
  THEN LET p == Get(coords.lastPoint)
       IN  /\ coords.latitude =
                toFixedSigned(Get(p.latitude)[1], Get(p.latitude)[2], 3)
           /\ coords.longitude =
                toFixedSigned(Get(p.longitude)[1], Get(p.longitude)[2], 3)
           /\ coords.latitude # "" /\ coords.longitude # ""
  ELSE coords.latitude = "" /\ coords.longitude = ""

\* C20 witness: the pointer left the view after a move had shown a point.
C20_Witness ==
  /\ ~coords.pointerOn
  /\ ValidPoint(coords.lastPoint)
  /\ coords.latitude = "" /\ coords.longitude = ""

====
